---------------------------- MODULE Spec2Model ----------------------------
(***************************************************************************)
(* A model of the sysdoc document model:                                   *)
(*   - SectionNumber parsing and ordering            (model.rs)            *)
(*   - Section::parse_content over markdown events   (model.rs)            *)
(*   - DocumentBuilder / UnifiedDocument             (unified_document.rs) *)
(*   - format_display_date                           (unified_document.rs) *)
(*   - SectionMetadata predicates                    (section_metadata.rs) *)
(*   - the traceability tables described by the flags' documentation       *)
(*                                                                         *)
(* Strings are sequences of one-character strings.  Fixed-width unsigned   *)
(* integers are big-endian sequences of 16-bit limbs, so that a u32 is     *)
(* <<hi, lo>> and overflow of the width is an explicit outcome.            *)
(***************************************************************************)
EXTENDS Integers, Sequences, FiniteSets, TLC

VARIABLES
    \* SectionNumber::parse and the derived ordering
    nCompsA,    \* the dot-separated component texts string a is made of
    nCompsB,    \* the same for string b
    nA,         \* string a: nCompsA joined by dots
    nB,         \* string b: nCompsB joined by dots
    nNumA,      \* SectionNumber::parse(a), once called
    nNumB,      \* SectionNumber::parse(b), once called
    nCmp,       \* a.cmp(&b), once called
    nDepth,     \* a.depth(), once called
    nCalled     \* which of "a", "b", "cmp", "depth" have been called

VARIABLES
    \* DocumentBuilder and the UnifiedDocument it builds
    bPhase,     \* "idle", "building" (a builder exists) or "built"
    bNew,       \* the arguments DocumentBuilder::new was called with
    bMetadata,  \* DocumentBuilder.metadata
    bRoot,      \* DocumentBuilder.root
    bSections,  \* DocumentBuilder.sections
    bTables,    \* DocumentBuilder.tables
    bCalls,     \* the add_section / add_table calls made, in call order
    doc,        \* the UnifiedDocument build() returned
    bPushes     \* blocks and tables pushed onto the built document

VARIABLES
    \* Section::parse_content
    pItems,     \* the markdown of Section.content, as its inline items
    pEvents,    \* Section.events
    pImages,    \* Section.images
    pTables,    \* Section.tables
    pRuns       \* calls of parse_content since content was last set

VARIABLES
    \* format_display_date
    dParts,     \* the '-'-separated pieces before the first 'T' of the input
    dTail,      \* the input from its first 'T' on (empty if it has none)
    dIn,        \* iso_date
    dOut,       \* the returned string
    dCalled     \* whether format_display_date has returned

VARIABLES
    \* SectionMetadata
    mKeys,      \* the keys the TOML content sets, with their values
    mMeta,      \* SectionMetadata::parse(content)
    mHas,       \* has_traceability()
    mReq,       \* requests_table_generation()
    mPc         \* which of "parse", "has", "req" have been called

VARIABLES
    \* traceability tables
    tRecords,   \* the metadata records of the document's sections
    tTodo,      \* indices of tRecords not yet processed
    tPairs,     \* the (section_id, traced_ids) pairs collected so far
    tFwd,       \* the forward table, once generated
    tRev,       \* the reverse table, once generated
    tPhase      \* "idle", "collecting" or "generated"

nVars == <<nCompsA, nCompsB, nA, nB, nNumA, nNumB, nCmp, nDepth, nCalled>>

bVars == <<bPhase, bNew, bMetadata, bRoot, bSections, bTables, bCalls, doc, bPushes>>

pVars == <<pItems, pEvents, pImages, pTables, pRuns>>

dVars == <<dParts, dTail, dIn, dOut, dCalled>>

mVars == <<mKeys, mMeta, mHas, mReq, mPc>>

tVars == <<tRecords, tTodo, tPairs, tFwd, tRev, tPhase>>

vars == <<nVars, bVars, pVars, dVars, mVars, tVars>>

\* the parts of the state a specification leaves out
IdleNumber ==
    /\ nCompsA = <<>> /\ nCompsB = <<>> /\ nA = <<>> /\ nB = <<>>
    /\ nNumA = [some |-> FALSE] /\ nNumB = [some |-> FALSE]
    /\ nCmp = "unset" /\ nDepth = 0 /\ nCalled = {}

IdleBuilder ==
    /\ bPhase = "idle" /\ bNew = <<>> /\ bMetadata = "" /\ bRoot = ""
    /\ bSections = <<>> /\ bTables = <<>> /\ bCalls = <<>>
    /\ doc = [some |-> FALSE] /\ bPushes = 0

IdleContent ==
    /\ pItems = <<>> /\ pEvents = <<>> /\ pImages = <<>> /\ pTables = <<>>
    /\ pRuns = 0

IdleDate ==
    /\ dParts = <<>> /\ dTail = <<>> /\ dIn = <<>> /\ dOut = <<>>
    /\ dCalled = FALSE

IdleMetadata ==
    /\ mKeys = <<>> /\ mMeta = [some |-> FALSE]
    /\ mHas = FALSE /\ mReq = FALSE /\ mPc = {}

IdleTrace ==
    /\ tRecords = <<>> /\ tTodo = {} /\ tPairs = <<>>
    /\ tFwd = <<>> /\ tRev = <<>> /\ tPhase = "idle"

-----------------------------------------------------------------------------
(* Option<T> *)

None == [some |-> FALSE]

Some(v) == [some |-> TRUE, val |-> v]

-----------------------------------------------------------------------------
(* Text *)

DigitChars == <<"0", "1", "2", "3", "4", "5", "6", "7", "8", "9">>

IsDigit(c) == \E d \in 1..10 : DigitChars[d] = c

DigitVal(c) == (CHOOSE d \in 1..10 : DigitChars[d] = c) - 1

\* str::find of a one-character pattern: the first index holding it, 0 if none
RECURSIVE FindChar(_, _, _)
FindChar(s, sep, i) ==
    IF i > Len(s) THEN 0
    ELSE IF s[i] = sep THEN i
    ELSE FindChar(s, sep, i + 1)

\* str::split(sep) collected: "" gives one empty piece, "1." gives "1" and ""
RECURSIVE SplitOn(_, _)
SplitOn(s, sep) ==
    LET k == FindChar(s, sep, 1) IN
    IF k = 0 THEN <<s>>
    ELSE <<SubSeq(s, 1, k - 1)>> \o SplitOn(SubSeq(s, k + 1, Len(s)), sep)

\* [..].join(sep)
RECURSIVE JoinWith(_, _)
JoinWith(pieces, sep) ==
    IF pieces = <<>> THEN <<>>
    ELSE IF Len(pieces) = 1 THEN pieces[1]
    ELSE pieces[1] \o sep \o JoinWith(Tail(pieces), sep)

-----------------------------------------------------------------------------
(* Fixed-width integers: big-endian sequences of 16-bit limbs *)

Limb == 65536

ZeroLimbs(n) == [i \in 1..n |-> 0]

\* x * 10 + d, limb by limb from the least significant; carry is what falls
\* out of the width (checked_mul / checked_add returning None)
RECURSIVE MulAdd10(_, _, _)
MulAdd10(x, i, carry) ==
    IF i = 0 THEN [limbs |-> x, carry |-> carry]
    ELSE LET t == x[i] * 10 + carry IN
         MulAdd10([x EXCEPT ![i] = t % Limb], i - 1, t \div Limb)

\* x <= y for values of the same number of limbs
LimbsLeq(x, y) ==
    \/ x = y
    \/ \E i \in 1..Len(x) :
         /\ x[i] < y[i]
         /\ \A j \in 1..(i - 1) : x[j] = y[j]

\* the digits of body folded into acc; None on a non-digit or on a value
\* above top, the largest value of the type (PosOverflow)

RECURSIVE FoldDigits(_, _, _)
FoldDigits(body, acc, top) ==
    IF body = <<>> THEN Some(acc)
    ELSE IF ~IsDigit(Head(body)) THEN None
    ELSE LET r == MulAdd10(acc, Len(acc), DigitVal(Head(body))) IN
         IF r.carry # 0 \/ ~LimbsLeq(r.limbs, top) THEN None
         ELSE FoldDigits(Tail(body), r.limbs, top)

U32Max == <<65535, 65535>>

\* str::parse::<u32>: an optional '+', then one or more ASCII digits, the
\* value within 32 bits
ParseU32(s) ==
    IF s = <<>> THEN None
    ELSE LET body == IF s[1] = "+" THEN Tail(s) ELSE s IN
         IF body = <<>> THEN None
         ELSE FoldDigits(body, ZeroLimbs(2), U32Max)

\* x / 10 and x % 10 by long division from the most significant limb
RECURSIVE DivMod10(_, _, _)
DivMod10(x, i, rem) ==
    IF i > Len(x) THEN [q |-> x, r |-> rem]
    ELSE LET t == rem * Limb + x[i] IN
         DivMod10([x EXCEPT ![i] = t \div 10], i + 1, t % 10)

RECURSIVE ToDecimal(_)
ToDecimal(x) ==
    IF x = ZeroLimbs(Len(x)) THEN <<>>
    ELSE LET dm == DivMod10(x, 1, 0) IN ToDecimal(dm.q) \o <<DigitChars[dm.r + 1]>>

\* ToString for an unsigned integer: decimal digits, no padding, "0" for zero
UIntToString(x) == IF x = ZeroLimbs(Len(x)) THEN <<"0">> ELSE ToDecimal(x)

-----------------------------------------------------------------------------
(* SectionNumber *)

\* Iterator<Item = Option<u32>>::collect::<Option<Vec<u32>>>(): the first
\* None makes the whole result None
RECURSIVE CollectOption(_)
CollectOption(opts) ==
    IF opts = <<>> THEN Some(<<>>)
    ELSE IF ~Head(opts).some THEN None
    ELSE LET rest == CollectOption(Tail(opts)) IN
         IF rest.some THEN Some(<<Head(opts).val>> \o rest.val) ELSE None

\* a collect that drops the components that do not parse
RECURSIVE CollectValid(_)
CollectValid(opts) ==
    IF opts = <<>> THEN Some(<<>>)
    ELSE LET rest == CollectValid(Tail(opts)) IN
         IF Head(opts).some THEN Some(<<Head(opts).val>> \o rest.val) ELSE rest

\* a parse that keeps the components that do parse
SectionNumberParseLenient(s) ==
    LET pieces == SplitOn(s, ".")
        opts == [i \in 1..Len(pieces) |-> ParseU32(pieces[i])]
    IN  Some([parts |-> CollectValid(opts).val])

SectionNumberParse(s) ==
    LET pieces == SplitOn(s, ".")
        opts == [i \in 1..Len(pieces) |-> ParseU32(pieces[i])]
        parts == CollectOption(opts)
    IN  IF parts.some THEN Some([parts |-> parts.val]) ELSE None

CmpU32(x, y) ==
    IF x = y THEN "Equal"
    ELSE IF x[1] < y[1] \/ (x[1] = y[1] /\ x[2] < y[2]) THEN "Less"
    ELSE "Greater"

CmpLen(m, n) == IF m < n THEN "Less" ELSE IF m = n THEN "Equal" ELSE "Greater"

\* Ord for [u32]: element by element, then by length
RECURSIVE CmpSlice(_, _)
CmpSlice(a, b) ==
    IF a = <<>> \/ b = <<>> THEN CmpLen(Len(a), Len(b))
    ELSE LET c == CmpU32(Head(a), Head(b)) IN
         IF c # "Equal" THEN c ELSE CmpSlice(Tail(a), Tail(b))

\* an ordering that ranks by the number of components first
CmpShortlex(a, b) ==
    IF Len(a.parts) # Len(b.parts) THEN CmpLen(Len(a.parts), Len(b.parts))
    ELSE CmpSlice(a.parts, b.parts)

\* #[derive(PartialOrd, Ord)] on SectionNumber { parts }
SectionNumberCmp(a, b) == CmpSlice(a.parts, b.parts)

\* usize::saturating_sub
SaturatingSub(m, n) == IF m >= n THEN m - n ELSE 0

\* a depth that counts the components
depth_component_count(a) == Len(a.parts)

\* SectionNumber::depth
depth(a) == SaturatingSub(Len(a.parts), 1)

\* impl Display for SectionNumber: the components' decimals joined by dots
SectionNumberDisplay(a) ==
    JoinWith([i \in 1..Len(a.parts) |-> UIntToString(a.parts[i])], <<".">>)

-----------------------------------------------------------------------------
(* SectionNumber: the strings tried *)

MaxParts == 2

ParsePool ==
    { <<>>, <<"1">>, <<"0", "1">>, <<"1", "0">>, <<"a", "b">>, <<"1", "a">>,
      <<"+", "1">>, <<"-", "1">>, <<"+">>,
      <<"4", "2", "9", "4", "9", "6", "7", "2", "9", "5">>,
      <<"4", "2", "9", "4", "9", "6", "7", "2", "9", "6">> }

OrderPool == { <<"1">>, <<"0", "1">>, <<"2">>, <<"0", "2">>, <<"1", "0">> }

SeqsUpTo(S, n) == UNION { [1..k -> S] : k \in 1..n }

InitParse ==
    /\ IdleBuilder /\ IdleContent /\ IdleDate /\ IdleMetadata /\ IdleTrace
    /\ nCompsA \in SeqsUpTo(ParsePool, MaxParts)
    /\ nA = JoinWith(nCompsA, <<".">>)
    /\ nCompsB \in { <<(<<"1">>)>>, <<(<<"1">>), (<<"1">>)>> }
    /\ nB = JoinWith(nCompsB, <<".">>)
    /\ nNumA = None
    /\ nNumB = None
    /\ nCmp = "unset"
    /\ nDepth = 0
    /\ nCalled = {}

InitOrder ==
    /\ IdleBuilder /\ IdleContent /\ IdleDate /\ IdleMetadata /\ IdleTrace
    /\ nCompsA \in SeqsUpTo(OrderPool, MaxParts)
    /\ nA = JoinWith(nCompsA, <<".">>)
    /\ nCompsB \in SeqsUpTo(OrderPool, MaxParts)
    /\ nB = JoinWith(nCompsB, <<".">>)
    /\ nNumA = None
    /\ nNumB = None
    /\ nCmp = "unset"
    /\ nDepth = 0
    /\ nCalled = {}

ParseA ==
    /\ "a" \notin nCalled
    /\ nNumA' = SectionNumberParse(nA)
    /\ nCalled' = nCalled \cup {"a"}
    /\ UNCHANGED <<nCompsA, nCompsB, nA, nB, nNumB, nCmp, nDepth>>
    /\ UNCHANGED <<bVars, pVars, dVars, mVars, tVars>>

ParseB ==
    /\ "b" \notin nCalled
    /\ nNumB' = SectionNumberParse(nB)
    /\ nCalled' = nCalled \cup {"b"}
    /\ UNCHANGED <<nCompsA, nCompsB, nA, nB, nNumA, nCmp, nDepth>>
    /\ UNCHANGED <<bVars, pVars, dVars, mVars, tVars>>

Compare ==
    /\ {"a", "b"} \subseteq nCalled
    /\ "cmp" \notin nCalled
    /\ nNumA.some
    /\ nNumB.some
    /\ nCmp' = SectionNumberCmp(nNumA.val, nNumB.val)
    /\ nCalled' = nCalled \cup {"cmp"}
    /\ UNCHANGED <<nCompsA, nCompsB, nA, nB, nNumA, nNumB, nDepth>>
    /\ UNCHANGED <<bVars, pVars, dVars, mVars, tVars>>

\* a.depth(), on the value parse returned
DepthA ==
    /\ "a" \in nCalled
    /\ "depth" \notin nCalled
    /\ nNumA.some
    /\ nDepth' = depth(nNumA.val)
    /\ nCalled' = nCalled \cup {"depth"}
    /\ UNCHANGED <<nCompsA, nCompsB, nA, nB, nNumA, nNumB, nCmp>>
    /\ UNCHANGED <<bVars, pVars, dVars, mVars, tVars>>

NextNumber == ParseA \/ ParseB \/ Compare \/ DepthA

SpecParse == InitParse /\ [][NextNumber]_vars

SpecOrder == InitOrder /\ [][NextNumber]_vars

-----------------------------------------------------------------------------
(* What a decimal numeral denotes, read off its text *)

StripPlus(c) == IF c # <<>> /\ c[1] = "+" THEN Tail(c) ELSE c

RECURSIVE StripZeros(_)
StripZeros(b) == IF Len(b) > 1 /\ b[1] = "0" THEN StripZeros(Tail(b)) ELSE b

Canon(c) == StripZeros(StripPlus(c))

AllDigits(b) == b # <<>> /\ \A i \in 1..Len(b) : IsDigit(b[i])

\* digit strings of equal length: z is at most top
DigitsLeq(z, top) ==
    \/ z = top
    \/ \E i \in 1..Len(z) :
         /\ DigitVal(z[i]) < DigitVal(top[i])
         /\ \A j \in 1..(i - 1) : z[j] = top[j]

FitsText(z, top) == Len(z) < Len(top) \/ (Len(z) = Len(top) /\ DigitsLeq(z, top))

U32MaxText == <<"4", "2", "9", "4", "9", "6", "7", "2", "9", "5">>

IsU32Numeral(c) == AllDigits(StripPlus(c)) /\ FitsText(Canon(c), U32MaxText)

\* the value of a numeral of at most nine digits
RECURSIVE PosVal(_)
PosVal(z) ==
    IF z = <<>> THEN 0
    ELSE PosVal(SubSeq(z, 1, Len(z) - 1)) * 10 + DigitVal(z[Len(z)])

-----------------------------------------------------------------------------
(* Claims on SectionNumber *)

\* C3: the ordering of SectionNumber is the lexicographic order of the
\* component sequences compared as integers: a < b iff a's component is the
\* smaller integer at the first index where they differ or a is a strict
\* prefix of b, a = b iff the component sequences are the same, and a > b
\* otherwise; the integers are those the component texts denote, so that
\* "1.10" < "2.1" and "01.01" < "01.02" < "02.01".
C3_OrderIsLexicographicOnIntegers ==
    "cmp" \in nCalled =>
        LET va == [i \in 1..Len(nCompsA) |-> PosVal(Canon(nCompsA[i]))]
            vb == [i \in 1..Len(nCompsB) |-> PosVal(Canon(nCompsB[i]))]
            m == IF Len(va) < Len(vb) THEN Len(va) ELSE Len(vb)
            Before(x, y) ==
                \/ \E i \in 1..m :
                     /\ x[i] < y[i]
                     /\ \A j \in 1..(i - 1) : x[j] = y[j]
                \/ /\ Len(x) < Len(y)
                   /\ \A j \in 1..Len(x) : x[j] = y[j]
        IN  /\ nCmp \in {"Less", "Equal", "Greater"}
            /\ (nCmp = "Less") <=> Before(va, vb)
            /\ (nCmp = "Equal") <=> (va = vb)
            /\ (nCmp = "Greater") <=> Before(vb, va)
            /\ (nCmp = "Equal") <=> (nNumA.val.parts = nNumB.val.parts)

\* "1.10" has been compared with "2.1" and found Less
C3_Witness ==
    /\ "cmp" \in nCalled
    /\ nA = <<"1", ".", "1", "0">>
    /\ nB = <<"2", ".", "1">>
    /\ nCmp = "Less"

\* C4: parse(s) returns a value iff every dot-separated component of s is a
\* decimal numeral (digits, optionally after one '+') whose value fits 32
\* bits, and then the parts are those integers in order, one per component;
\* if any component is not, it returns None.
C4_ParseAllOrNothing ==
    "a" \in nCalled =>
        /\ nNumA.some <=> (\A i \in 1..Len(nCompsA) : IsU32Numeral(nCompsA[i]))
        /\ nNumA.some =>
              LET p == nNumA.val.parts IN
              /\ Len(p) = Len(nCompsA)
              /\ \A i \in 1..Len(p) :
                   LET z == Canon(nCompsA[i]) IN
                   /\ UIntToString(p[i]) = z
                   /\ Len(z) <= 9 => p[i][1] * Limb + p[i][2] = PosVal(z)

\* parse has returned None for a string with a valid and an invalid component
C4_Witness ==
    /\ "a" \in nCalled
    /\ nNumA = None
    /\ \E i, j \in 1..Len(nCompsA) :
         IsU32Numeral(nCompsA[i]) /\ ~IsU32Numeral(nCompsA[j])

\* C11: when parse(s) succeeds the result has at least one component, one
\* per dot-separated component of s, and depth() is the number of
\* components minus 1 ("1" has depth 0, "01.01" depth 1); depth() never
\* meets an empty component list on a value parse produced.
C11_DepthIsComponentsMinusOne ==
    /\ ("a" \in nCalled /\ nNumA.some) =>
         /\ Len(nNumA.val.parts) >= 1
         /\ Len(nNumA.val.parts) = Len(nCompsA)
    /\ "depth" \in nCalled => nDepth = Len(nCompsA) - 1

\* depth() of parse("01.01") has been computed and is 1
C11_Witness ==
    /\ "depth" \in nCalled
    /\ nA = <<"0", "1", ".", "0", "1">>
    /\ nNumA.val.parts = <<(<<0, 1>>), (<<0, 1>>)>>
    /\ nDepth = 1

-----------------------------------------------------------------------------
(* DocumentBuilder and UnifiedDocument *)

MaxCalls == 3

MaxPushes == 1

Unwrap(o) == o.val

NumOne == Unwrap(SectionNumberParse(<<"1">>))

NumTwo == Unwrap(SectionNumberParse(<<"2">>))

NumOneOne == Unwrap(SectionNumberParse(<<"1", ".", "1">>))

\* MarkdownBlock: the variants the document model tells apart
TextBlock(t) == [kind |-> "Text", text |-> t]

ImageBlock(u, a) == [kind |-> "Image", url |-> u, alt_text |-> a]

TableReferenceBlock(p) == [kind |-> "TableReference", path |-> p]

BlockPool ==
    { TextBlock("intro"), ImageBlock("fig.png", "figure"),
      TableReferenceBlock("t.csv") }

\* MarkdownSection, by the fields the document model reads
MarkdownSection(n, f, c) ==
    [section_number |-> n, source_file |-> f, content |-> c]

SectionPool ==
    { MarkdownSection(NumTwo, "02_b.md", <<ImageBlock("fig.png", "figure")>>),
      MarkdownSection(NumOne, "01_a.md",
                      <<TextBlock("intro"), TableReferenceBlock("t.csv")>>),
      MarkdownSection(NumOne, "01_c.md", <<>>),
      MarkdownSection(NumOneOne, "01.01_d.md",
                      <<TableReferenceBlock("u.csv"), ImageBlock("x.png", ""),
                        TableReferenceBlock("t.csv")>>) }

\* TableSource: the table's path and the section that refers to it
TableSource(p, n) == [path |-> p, owner |-> n]

TablePool ==
    { TableSource("t.csv", NumOne), TableSource("u.csv", NumOneOne) }

MetadataPool == { "TEST-001", "TEST-002" }

RootPool == { ".", "docs" }

\* DocumentBuilder::new
InitBuilder ==
    /\ IdleNumber /\ IdleContent /\ IdleDate /\ IdleMetadata /\ IdleTrace
    /\ bPhase = "building"
    /\ bNew \in [metadata : MetadataPool, root : RootPool]
    /\ bMetadata = bNew.metadata
    /\ bRoot = bNew.root
    /\ bSections = <<>>
    /\ bTables = <<>>
    /\ bCalls = <<>>
    /\ doc = None
    /\ bPushes = 0

\* DocumentBuilder::add_section
add_section ==
    /\ bPhase = "building"
    /\ Len(bCalls) < MaxCalls
    /\ \E section \in SectionPool :
         /\ bSections' = Append(bSections, section)
         /\ bCalls' = Append(bCalls, [op |-> "add_section", arg |-> section])
    /\ UNCHANGED <<bPhase, bNew, bMetadata, bRoot, bTables, doc, bPushes>>
    /\ UNCHANGED <<nVars, pVars, dVars, mVars, tVars>>

\* DocumentBuilder::add_table
add_table ==
    /\ bPhase = "building"
    /\ Len(bCalls) < MaxCalls
    /\ \E table \in TablePool :
         /\ bTables' = Append(bTables, table)
         /\ bCalls' = Append(bCalls, [op |-> "add_table", arg |-> table])
    /\ UNCHANGED <<bPhase, bNew, bMetadata, bRoot, bSections, doc, bPushes>>
    /\ UNCHANGED <<nVars, pVars, dVars, mVars, tVars>>

\* a document made as UnifiedDocument::new makes it, given the sections
BuildDocumentWithoutTables(metadata, root, sections, tables) ==
    [metadata |-> metadata, root |-> root, sections |-> sections,
     tables |-> <<>>]

\* DocumentBuilder::build: the builder's fields moved into the document
BuildDocument(metadata, root, sections, tables) ==
    [metadata |-> metadata, root |-> root, sections |-> sections,
     tables |-> tables]

build ==
    /\ bPhase = "building"
    /\ doc' = BuildDocument(bMetadata, bRoot, bSections, bTables)
    /\ bPhase' = "built"
    /\ UNCHANGED <<bNew, bMetadata, bRoot, bSections, bTables, bCalls, bPushes>>
    /\ UNCHANGED <<nVars, pVars, dVars, mVars, tVars>>

\* doc.sections[i].content.push(block), through the public fields
PushBlock ==
    /\ bPhase = "built"
    /\ bPushes < MaxPushes
    /\ \E i \in 1..Len(doc.sections), block \in BlockPool :
         doc' = [doc EXCEPT !.sections[i].content = Append(@, block)]
    /\ bPushes' = bPushes + 1
    /\ UNCHANGED <<bPhase, bNew, bMetadata, bRoot, bSections, bTables, bCalls>>
    /\ UNCHANGED <<nVars, pVars, dVars, mVars, tVars>>

\* doc.tables.push(table), through the public field
PushTable ==
    /\ bPhase = "built"
    /\ bPushes < MaxPushes
    /\ \E table \in TablePool : doc' = [doc EXCEPT !.tables = Append(@, table)]
    /\ bPushes' = bPushes + 1
    /\ UNCHANGED <<bPhase, bNew, bMetadata, bRoot, bSections, bTables, bCalls>>
    /\ UNCHANGED <<nVars, pVars, dVars, mVars, tVars>>

\* UnifiedDocument::table_count
table_count(d) == Len(d.tables)

\* UnifiedDocument::section_count
section_count(d) == Len(d.sections)

\* sections.iter().flat_map(|s| &s.content)
RECURSIVE FlatContent(_)
FlatContent(sections) ==
    IF sections = <<>> THEN <<>>
    ELSE Head(sections).content \o FlatContent(Tail(sections))

\* UnifiedDocument::word_count
RECURSIVE SumContentLen(_)
SumContentLen(sections) ==
    IF sections = <<>> THEN 0
    ELSE Len(Head(sections).content) + SumContentLen(Tail(sections))

word_count(d) == SumContentLen(d.sections)

IsImage(block) == block.kind = "Image"

\* a count of every block, as word_count makes
image_count_all_blocks(d) == Len(FlatContent(d.sections))

\* UnifiedDocument::image_count
image_count(d) == Len(SelectSeq(FlatContent(d.sections), IsImage))

NextBuilder == add_section \/ add_table \/ build \/ PushBlock \/ PushTable

SpecBuilder == InitBuilder /\ [][NextBuilder]_vars

-----------------------------------------------------------------------------
(* Claims on DocumentBuilder and UnifiedDocument *)

IsAddSection(call) == call.op = "add_section"

\* the sections given to add_section, in call order
AddedSections ==
    LET calls == SelectSeq(bCalls, IsAddSection)
    IN  [i \in 1..Len(calls) |-> calls[i].arg]

DistinctNumbers(sections) ==
    \A i, j \in 1..Len(sections) :
        i # j => sections[i].section_number # sections[j].section_number

SortedAscending(sections) ==
    \A i, j \in 1..Len(sections) :
        i < j => SectionNumberCmp(sections[i].section_number,
                                  sections[j].section_number) = "Less"

\* C1: when the sections added have pairwise distinct SectionNumbers, the
\* document build() returns holds exactly the added sections (as many as
\* there were add_section calls, none lost, none twice) and its sections
\* are sorted ascending by SectionNumber, whatever the call order.
C1_BuildSortedAndComplete ==
    (bPhase = "built" /\ DistinctNumbers(AddedSections)) =>
        /\ section_count(doc) = Len(AddedSections)
        /\ { doc.sections[i].source_file : i \in 1..Len(doc.sections) }
             = { AddedSections[i].source_file : i \in 1..Len(AddedSections) }
        /\ SortedAscending(doc.sections)

\* C2: when two of the sections added have equal SectionNumbers, assembly
\* fails: build() produces no document.
C2_DuplicateNumbersFailBuild ==
    bPhase = "built" => DistinctNumbers(AddedSections)

\* the TableReference blocks of the sections, in the order a walk over the
\* sections and their content finds them, each with its owning section
RECURSIVE TableRefsOfContent(_, _)
TableRefsOfContent(content, owner) ==
    IF content = <<>> THEN <<>>
    ELSE (IF Head(content).kind = "TableReference"
          THEN <<TableSource(Head(content).path, owner)>> ELSE <<>>)
         \o TableRefsOfContent(Tail(content), owner)

RECURSIVE TableRefsOf(_)
TableRefsOf(sections) ==
    IF sections = <<>> THEN <<>>
    ELSE TableRefsOfContent(Head(sections).content, Head(sections).section_number)
         \o TableRefsOf(Tail(sections))

\* C6: after assembly the document's table list holds one entry for every
\* TableReference block of the added sections' content, in discovery order
\* and with its owning section, and table_count() is the number of those
\* blocks, whatever add_table calls were or were not made.
C6_TablesCollectedFromSections ==
    (bPhase = "built" /\ bPushes = 0) =>
        /\ doc.tables = TableRefsOf(doc.sections)
        /\ table_count(doc) = Len(TableRefsOf(AddedSections))

\* every <<section index, block index>> of a document
BlockPositions(d) ==
    UNION { { <<i, j>> : j \in 1..Len(d.sections[i].content) } :
            i \in 1..Len(d.sections) }

\* C8: image_count() is the number of Image blocks over the content of all
\* sections; pushing a block onto a section raises it by one if the block
\* is an Image and leaves it unchanged otherwise, and pushing a table onto
\* the table list leaves it unchanged.
C8_ImageCountCountsImagesOnly ==
    /\ [](bPhase = "built" =>
            image_count(doc) =
                Cardinality({ p \in BlockPositions(doc) :
                                doc.sections[p[1]].content[p[2]].kind = "Image" }))
    /\ [][(bPhase = "built" /\ bPhase' = "built") =>
            /\ \A i \in 1..Len(doc.sections) : \A block \in BlockPool :
                 doc' = [doc EXCEPT !.sections[i].content = Append(@, block)]
                 => image_count(doc') =
                      image_count(doc) + (IF block.kind = "Image" THEN 1 ELSE 0)
            /\ \A table \in TablePool :
                 doc' = [doc EXCEPT !.tables = Append(@, table)]
                 => image_count(doc') = image_count(doc)]_vars

\* a TableReference block has been pushed onto a section of a document that
\* holds one image, and image_count() is still one
C8_Witness ==
    /\ bPhase = "built"
    /\ bPushes = 1
    /\ image_count(doc) = 1
    /\ \E i \in 1..Len(doc.sections) :
         /\ Len(doc.sections[i].content) = Len(bSections[i].content) + 1
         /\ doc.sections[i].content[Len(doc.sections[i].content)].kind
              = "TableReference"

IsAddTable(call) == call.op = "add_table"

\* the arguments of the calls of one operation, in call order
ArgsOf(calls, op) ==
    LET sel == SelectSeq(calls, LAMBDA c : c.op = op)
    IN  [i \in 1..Len(sel) |-> sel[i].arg]

IsPrefix(s, t) == Len(s) <= Len(t) /\ SubSeq(t, 1, Len(s)) = s

\* C13: add_section changes only the builder's section list and add_table
\* only its table list, each by appending its argument; so the document
\* build() returns has the metadata and root given to DocumentBuilder::new,
\* as tables the add_table arguments in call order (and as sections the
\* add_section arguments), and no call removes or alters a section or
\* table added before it.
C13_AddsTouchOnlyTheirList ==
    /\ []((bPhase = "built" /\ bPushes = 0) =>
            /\ doc.metadata = bNew.metadata
            /\ doc.root = bNew.root
            /\ doc.tables = ArgsOf(bCalls, "add_table")
            /\ doc.sections = ArgsOf(bCalls, "add_section"))
    /\ [][(bPhase = "building" /\ Len(bCalls') = Len(bCalls) + 1) =>
            LET call == bCalls'[Len(bCalls')] IN
            /\ bMetadata' = bMetadata /\ bRoot' = bRoot
            /\ IsPrefix(bSections, bSections') /\ IsPrefix(bTables, bTables')
            /\ IsAddSection(call) =>
                 bTables' = bTables /\ bSections' = Append(bSections, call.arg)
            /\ IsAddTable(call) =>
                 bSections' = bSections /\ bTables' = Append(bTables, call.arg)]_vars

\* build() after add_table(u.csv), add_section, add_table(t.csv) on a builder
\* made with TEST-002 and root docs: the document has the two tables in
\* that order
C13_Witness ==
    /\ bPhase = "built"
    /\ bPushes = 0
    /\ bNew = [metadata |-> "TEST-002", root |-> "docs"]
    /\ Len(bCalls) = 3
    /\ bCalls[1] = [op |-> "add_table", arg |-> TableSource("u.csv", NumOneOne)]
    /\ IsAddSection(bCalls[2])
    /\ bCalls[3] = [op |-> "add_table", arg |-> TableSource("t.csv", NumOne)]
    /\ doc.tables = <<TableSource("u.csv", NumOneOne), TableSource("t.csv", NumOne)>>
    /\ doc.metadata = "TEST-002"

-----------------------------------------------------------------------------
(* Section::parse_content *)

MaxItems == 2

MaxRuns == 2

\* the inline items of a section's markdown
TextItem(t) == [kind |-> "text", text |-> t]

ImageItem(u, alt) == [kind |-> "image", url |-> u, alt |-> alt]

LinkItem(u, t) == [kind |-> "link", url |-> u, text |-> t]

ItemPool ==
    { TextItem(<<"s", "e", "e">>),
      ImageItem(<<"a", ".", "p", "n", "g">>, <<(<<"a", "l", "t">>)>>),
      ImageItem(<<"b", ".", "c", "s", "v">>, <<>>),
      ImageItem(<<"c", ".", "p", "n", "g">>, <<(<<"a">>), (<<"&">>), (<<"b">>)>>),
      LinkItem(<<"t", ".", "c", "s", "v">>, <<"t", "a", "b">>),
      LinkItem(<<"c", "s", "v">>, <<"r", "a", "w">>),
      LinkItem(<<"x", ".", "c", "s", "v", ".", "g", "z">>, <<"z", "i", "p">>) }

ContentPool == UNION { [1..k -> ItemPool] : k \in 0..MaxItems }

\* pulldown_cmark events
StartEvent(tag) == [ev |-> "Start", tag |-> tag]

StartUrlEvent(tag, u) == [ev |-> "Start", tag |-> tag, dest_url |-> u]

EndEvent(tag) == [ev |-> "End", tag |-> tag]

TextEvent(t) == [ev |-> "Text", text |-> t]

\* the events of one inline item: an image or a link is a Start, the text
\* events inside it, and an End
ItemEvents(item) ==
    IF item.kind = "text" THEN <<TextEvent(item.text)>>
    ELSE IF item.kind = "image"
    THEN <<StartUrlEvent("Image", item.url)>>
         \o [i \in 1..Len(item.alt) |-> TextEvent(item.alt[i])]
         \o <<EndEvent("Image")>>
    ELSE <<StartUrlEvent("Link", item.url), TextEvent(item.text),
           EndEvent("Link")>>

RECURSIVE ItemsEvents(_)
ItemsEvents(items) ==
    IF items = <<>> THEN <<>>
    ELSE ItemEvents(Head(items)) \o ItemsEvents(Tail(items))

\* Parser::new(&self.content): the items of a paragraph between its Start
\* and End; nothing for empty content
ParserEvents(items) ==
    IF items = <<>> THEN <<>>
    ELSE <<StartEvent("Paragraph")>> \o ItemsEvents(items)
         \o <<EndEvent("Paragraph")>>

\* str::ends_with
EndsWith(s, suffix) ==
    /\ Len(s) >= Len(suffix)
    /\ SubSeq(s, Len(s) - Len(suffix) + 1, Len(s)) = suffix

CsvSuffix == <<".", "c", "s", "v">>

\* ImageReference
ImageReference(u, a) == [url |-> u, alt_text |-> a]

\* a loop that takes the destination of an image for a table as well
RECURSIVE ParseLoopAnyCsvDestination(_, _, _, _)
ParseLoopAnyCsvDestination(rest, events, images, tables) ==
    IF rest = <<>> THEN [events |-> events, images |-> images, tables |-> tables]
    ELSE LET event == Head(rest)
             isImage == event.ev = "Start" /\ event.tag = "Image"
             isLink == event.ev = "Start" /\ event.tag = "Link"
             images2 == IF isImage
                        THEN Append(images, ImageReference(event.dest_url, <<>>))
                        ELSE images
             tables2 == IF (isLink \/ isImage) /\ EndsWith(event.dest_url, CsvSuffix)
                        THEN Append(tables, event.dest_url)
                        ELSE tables
         IN  ParseLoopAnyCsvDestination(Tail(rest), Append(events, event),
                                        images2, tables2)

\* the loop of parse_content over the events, with its three vectors
RECURSIVE ParseLoop(_, _, _, _)
ParseLoop(rest, events, images, tables) ==
    IF rest = <<>> THEN [events |-> events, images |-> images, tables |-> tables]
    ELSE LET event == Head(rest)
             isImage == event.ev = "Start" /\ event.tag = "Image"
             isLink == event.ev = "Start" /\ event.tag = "Link"
             images2 == IF isImage
                        THEN Append(images, ImageReference(event.dest_url, <<>>))
                        ELSE images
             tables2 == IF isLink /\ EndsWith(event.dest_url, CsvSuffix)
                        THEN Append(tables, event.dest_url)
                        ELSE tables
         IN  ParseLoop(Tail(rest), Append(events, event), images2, tables2)

InitContent ==
    /\ IdleNumber /\ IdleBuilder /\ IdleDate /\ IdleMetadata /\ IdleTrace
    /\ pItems \in ContentPool
    /\ pEvents = <<>>
    /\ pImages = <<>>
    /\ pTables = <<>>
    /\ pRuns = 0

\* Section::parse_content
parse_content ==
    /\ pRuns < MaxRuns
    /\ LET r == ParseLoop(ParserEvents(pItems), <<>>, <<>>, <<>>) IN
         /\ pEvents' = r.events
         /\ pImages' = r.images
         /\ pTables' = r.tables
    /\ pRuns' = pRuns + 1
    /\ UNCHANGED pItems
    /\ UNCHANGED <<nVars, bVars, dVars, mVars, tVars>>

\* section.content = ..., through the public field
SetContent ==
    /\ pRuns > 0
    /\ \E items \in ContentPool :
         /\ items # pItems
         /\ pItems' = items
    /\ pRuns' = 0
    /\ UNCHANGED <<pEvents, pImages, pTables>>
    /\ UNCHANGED <<nVars, bVars, dVars, mVars, tVars>>

NextContent == parse_content \/ SetContent

SpecContent == InitContent /\ [][NextContent]_vars

-----------------------------------------------------------------------------
(* Claims on Section::parse_content *)

IsImageItem(item) == item.kind = "image"

RECURSIVE Concat(_)
Concat(texts) == IF texts = <<>> THEN <<>> ELSE Head(texts) \o Concat(Tail(texts))

\* C5: after parse_content every image reference of the content has exactly
\* one record in images, in source order, holding the image's destination
\* URL and the alt text made of the text events between its start and end
\* (so text outside an image goes to no image, and an image with alt text
\* has a non-empty alt_text).
C5_ImagesCarryUrlAndAltText ==
    pRuns > 0 =>
        LET imgs == SelectSeq(pItems, IsImageItem) IN
        /\ Len(pImages) = Len(imgs)
        /\ \A k \in 1..Len(imgs) :
             /\ pImages[k].url = imgs[k].url
             /\ pImages[k].alt_text = Concat(imgs[k].alt)

\* the last four characters of a destination are ".csv"
HasCsvEnding(u) ==
    /\ Len(u) >= 4
    /\ u[Len(u) - 3] = "." /\ u[Len(u) - 2] = "c"
    /\ u[Len(u) - 1] = "s" /\ u[Len(u)] = "v"

IsCsvLinkItem(item) == item.kind = "link" /\ HasCsvEnding(item.url)

\* C12: after parse_content, tables is exactly the destinations of the
\* links whose destination ends with ".csv", in source order and with
\* repeats kept (other links and images, even with a ".csv" destination,
\* add nothing); events holds every event of the input in source order;
\* and a further run on the same content, or a run after the content was
\* changed, replaces events, images and tables instead of appending.
C12_TablesAreCsvLinksInOrder ==
    pRuns > 0 =>
        LET csv == SelectSeq(pItems, IsCsvLinkItem)
            input == ParserEvents(pItems)
        IN
        /\ Len(pTables) = Len(csv)
        /\ \A k \in 1..Len(csv) : pTables[k] = csv[k].url
        /\ pEvents = input
        /\ Len(pImages) = Len(SelectSeq(pItems, IsImageItem))

\* parse_content has run twice on content holding the same ".csv" link
\* twice, and tables holds the link's destination twice, no more
C12_Witness ==
    /\ pRuns = 2
    /\ Len(pItems) >= 2
    /\ \E i, j \in 1..Len(pItems) :
         /\ i < j
         /\ IsCsvLinkItem(pItems[i])
         /\ pItems[j] = pItems[i]
    /\ pTables = <<(<<"t", ".", "c", "s", "v">>), (<<"t", ".", "c", "s", "v">>)>>

-----------------------------------------------------------------------------
(* format_display_date *)

MaxDateParts == 3

MONTHS ==
    << <<"J", "a", "n">>, <<"F", "e", "b">>, <<"M", "a", "r">>,
       <<"A", "p", "r">>, <<"M", "a", "y">>, <<"J", "u", "n">>,
       <<"J", "u", "l">>, <<"A", "u", "g">>, <<"S", "e", "p">>,
       <<"O", "c", "t">>, <<"N", "o", "v">>, <<"D", "e", "c">> >>

I32Max == <<32767, 65535>>

I32MinMagnitude == <<32768, 0>>

UsizeMax == <<65535, 65535, 65535, 65535>>

\* str::parse::<i32>: an optional '+' or '-', then one or more ASCII digits,
\* the value within -2^31 .. 2^31 - 1
ParseI32(s) ==
    IF s = <<>> THEN None
    ELSE LET signed == s[1] = "+" \/ s[1] = "-"
             neg == s[1] = "-"
             body == IF signed THEN Tail(s) ELSE s
         IN  IF body = <<>> THEN None
             ELSE LET mag == FoldDigits(body, ZeroLimbs(2),
                                        IF neg THEN I32MinMagnitude ELSE I32Max)
                  IN  IF mag.some
                      THEN Some([neg |-> neg /\ mag.val # ZeroLimbs(2),
                                 mag |-> mag.val])
                      ELSE None

\* str::parse::<usize> (64 bits)
ParseUsize(s) ==
    IF s = <<>> THEN None
    ELSE LET body == IF s[1] = "+" THEN Tail(s) ELSE s IN
         IF body = <<>> THEN None
         ELSE FoldDigits(body, ZeroLimbs(4), UsizeMax)

\* i32::to_string
I32ToString(x) == (IF x.neg THEN <<"-">> ELSE <<>>) \o UIntToString(x.mag)

\* (1..=12).contains(&month)
MonthInRange(month) ==
    /\ month[1] = 0 /\ month[2] = 0 /\ month[3] = 0
    /\ 1 <= month[4] /\ month[4] <= 12

\* iso_date.split('T').next(): the text before the first 'T'
DatePart(iso_date) == Head(SplitOn(iso_date, "T"))

\* a formatting that prints the day and year as they are written
format_display_date_raw_text(iso_date) ==
    LET parts == SplitOn(DatePart(iso_date), "-") IN
    IF Len(parts) >= 3
    THEN LET year == ParseI32(parts[1])
             month == ParseUsize(parts[2])
             day == ParseU32(parts[3])
         IN  IF year.some /\ month.some /\ day.some /\ MonthInRange(month.val)
             THEN parts[3] \o <<" ">> \o MONTHS[month.val[4]] \o <<" ">> \o parts[1]
             ELSE iso_date
    ELSE iso_date

format_display_date(iso_date) ==
    LET parts == SplitOn(DatePart(iso_date), "-") IN
    IF Len(parts) >= 3
    THEN LET year == ParseI32(parts[1])
             month == ParseUsize(parts[2])
             day == ParseU32(parts[3])
         IN  IF year.some /\ month.some /\ day.some /\ MonthInRange(month.val)
             THEN UIntToString(day.val) \o <<" ">> \o MONTHS[month.val[4]]
                  \o <<" ">> \o I32ToString(year.val)
             ELSE iso_date
    ELSE iso_date

DatePiecePool ==
    { <<"2", "0", "2", "6">>, <<"0", "7">>, <<"6">>, <<"1", "2">>, <<"1", "3">>,
      <<"0">>, <<"a", "b">>, <<>>, <<"+", "5">>,
      <<"2", "1", "4", "7", "4", "8", "3", "6", "4", "8">>,
      <<"4", "2", "9", "4", "9", "6", "7", "2", "9", "6">> }

DateTailPool ==
    { <<>>, <<"T", "0", "9", ":", "0", "0">>, <<"T", "-", "0", "5", "T">> }

InitDate ==
    /\ IdleNumber /\ IdleBuilder /\ IdleContent /\ IdleMetadata /\ IdleTrace
    /\ dParts \in SeqsUpTo(DatePiecePool, MaxDateParts)
    /\ dTail \in DateTailPool
    /\ dIn = JoinWith(dParts, <<"-">>) \o dTail
    /\ dOut = <<>>
    /\ dCalled = FALSE

\* format_display_date(iso_date)
FormatDate ==
    /\ ~dCalled
    /\ dOut' = format_display_date(dIn)
    /\ dCalled' = TRUE
    /\ UNCHANGED <<dParts, dTail, dIn>>
    /\ UNCHANGED <<nVars, bVars, pVars, mVars, tVars>>

NextDate == FormatDate

SpecDate == InitDate /\ [][NextDate]_vars

-----------------------------------------------------------------------------
(* Claims on format_display_date *)

I32MaxText == <<"2", "1", "4", "7", "4", "8", "3", "6", "4", "7">>

\* the month a piece denotes, 0 if it denotes none of 1..12
MonthOf(c) ==
    IF AllDigits(StripPlus(c)) /\ Len(Canon(c)) <= 2 /\ PosVal(Canon(c)) <= 12
    THEN PosVal(Canon(c)) ELSE 0

MonthAbbrev(m) ==
    CASE m = 1 -> <<"J", "a", "n">> [] m = 2 -> <<"F", "e", "b">>
      [] m = 3 -> <<"M", "a", "r">> [] m = 4 -> <<"A", "p", "r">>
      [] m = 5 -> <<"M", "a", "y">> [] m = 6 -> <<"J", "u", "n">>
      [] m = 7 -> <<"J", "u", "l">> [] m = 8 -> <<"A", "u", "g">>
      [] m = 9 -> <<"S", "e", "p">> [] m = 10 -> <<"O", "c", "t">>
      [] m = 11 -> <<"N", "o", "v">> [] m = 12 -> <<"D", "e", "c">>

\* C7: format_display_date always returns, with one of two outcomes.  With
\* the text before the first 'T' split on '-': if there are at least three
\* pieces, the first parses as an integer year (i32), the second as an
\* integer month within 1..12 and the third as an integer day (u32), the
\* result is "{day} {MonthAbbrev} {year}", day and year as plain decimals
\* without sign or leading zeros; in every other case the result is the
\* input unchanged.
C7_FormatsOrReturnsInput ==
    dCalled =>
        IF /\ Len(dParts) >= 3
           /\ AllDigits(StripPlus(dParts[1]))
           /\ FitsText(Canon(dParts[1]), I32MaxText)
           /\ MonthOf(dParts[2]) >= 1
           /\ IsU32Numeral(dParts[3])
        THEN dOut = Canon(dParts[3]) \o <<" ">> \o MonthAbbrev(MonthOf(dParts[2]))
                    \o <<" ">> \o Canon(dParts[1])
        ELSE dOut = dIn

\* "2026-07-6T09:00" has been formatted as "6 Jul 2026"
C7_Witness ==
    /\ dCalled
    /\ dIn = <<"2", "0", "2", "6", "-", "0", "7", "-", "6",
               "T", "0", "9", ":", "0", "0">>
    /\ dOut = <<"6", " ", "J", "u", "l", " ", "2", "0", "2", "6">>

-----------------------------------------------------------------------------
(* SectionMetadata *)

\* the TOML content of a sysdoc block, by what it gives each key (None for
\* a key it does not set)
TomlContent(sid, tids, fwd, rev) ==
    [section_id |-> sid, traced_ids |-> tids,
     generate_section_id_to_traced_ids_table |-> fwd,
     generate_traced_ids_to_section_ids_table |-> rev]

SectionIdValues == { None, Some("REQ-001"), Some("") }

TracedIdsValues == { None, Some(<<>>), Some(<<"SRS-001", "SRS-002">>) }

FlagValues == { None, Some(FALSE), Some(TRUE) }

\* #[serde(default)] on a bool field: false unless the key is set
FlagOrDefault(o) == IF o.some THEN o.val ELSE FALSE

\* SectionMetadata::parse: toml::from_str under #[serde(default)]
SectionMetadataParse(content) ==
    [section_id |-> content.section_id,
     traced_ids |-> content.traced_ids,
     generate_section_id_to_traced_ids_table |->
         FlagOrDefault(content.generate_section_id_to_traced_ids_table),
     generate_traced_ids_to_section_ids_table |->
         FlagOrDefault(content.generate_traced_ids_to_section_ids_table)]

\* a has_traceability that wants a traced id, not only the list
has_traceability_non_empty(m) ==
    m.section_id.some \/ (m.traced_ids.some /\ m.traced_ids.val # <<>>)

\* SectionMetadata::has_traceability
has_traceability(m) == m.section_id.some \/ m.traced_ids.some

\* SectionMetadata::requests_table_generation
requests_table_generation(m) ==
    \/ m.generate_section_id_to_traced_ids_table
    \/ m.generate_traced_ids_to_section_ids_table

InitMetadata ==
    /\ IdleNumber /\ IdleBuilder /\ IdleContent /\ IdleDate /\ IdleTrace
    /\ \E sid \in SectionIdValues, tids \in TracedIdsValues :
         \E fwd \in FlagValues, rev \in FlagValues :
             mKeys = TomlContent(sid, tids, fwd, rev)
    /\ mMeta = None
    /\ mHas = FALSE
    /\ mReq = FALSE
    /\ mPc = {}

\* SectionMetadata::parse(content)
ParseMetadata ==
    /\ mPc = {}
    /\ mMeta' = Some(SectionMetadataParse(mKeys))
    /\ mPc' = {"parse"}
    /\ UNCHANGED <<mKeys, mHas, mReq>>
    /\ UNCHANGED <<nVars, bVars, pVars, dVars, tVars>>

\* metadata.has_traceability()
AskHasTraceability ==
    /\ "parse" \in mPc
    /\ "has" \notin mPc
    /\ mHas' = has_traceability(mMeta.val)
    /\ mPc' = mPc \cup {"has"}
    /\ UNCHANGED <<mKeys, mMeta, mReq>>
    /\ UNCHANGED <<nVars, bVars, pVars, dVars, tVars>>

\* metadata.requests_table_generation()
AskRequestsTableGeneration ==
    /\ "parse" \in mPc
    /\ "req" \notin mPc
    /\ mReq' = requests_table_generation(mMeta.val)
    /\ mPc' = mPc \cup {"req"}
    /\ UNCHANGED <<mKeys, mMeta, mHas>>
    /\ UNCHANGED <<nVars, bVars, pVars, dVars, tVars>>

NextMetadata == ParseMetadata \/ AskHasTraceability \/ AskRequestsTableGeneration

SpecMetadata == InitMetadata /\ [][NextMetadata]_vars

-----------------------------------------------------------------------------
(* Claims on SectionMetadata *)

\* C9: has_traceability() is true iff section_id or traced_ids is present
\* (an empty traced_ids list is present), requests_table_generation() is
\* true iff one of the two generate_* flags is true; neither depends on any
\* other field, and both are false on the record parsed from empty input.
C9_PredicatesOfMetadata ==
    /\ "has" \in mPc => (mHas <=> (mKeys.section_id.some \/ mKeys.traced_ids.some))
    /\ "req" \in mPc =>
         (mReq <=> \/ mKeys.generate_section_id_to_traced_ids_table = Some(TRUE)
                   \/ mKeys.generate_traced_ids_to_section_ids_table = Some(TRUE))
    /\ (mPc = {"parse", "has", "req"} /\ mKeys = TomlContent(None, None, None, None))
         => (~mHas /\ ~mReq)

\* a record with an empty traced_ids list, no section_id and both flags
\* false: has_traceability() is true, requests_table_generation() false
C9_Witness ==
    /\ mPc = {"parse", "has", "req"}
    /\ mKeys.section_id = None
    /\ mKeys.traced_ids = Some(<<>>)
    /\ mMeta.val.generate_section_id_to_traced_ids_table = FALSE
    /\ mMeta.val.generate_traced_ids_to_section_ids_table = FALSE
    /\ mHas
    /\ ~mReq

-----------------------------------------------------------------------------
(* Traceability tables: generate_section_id_to_traced_ids_table and        *)
(* generate_traced_ids_to_section_ids_table                                *)

MaxRecords == 3

\* the characters of the identifiers used, in byte order
CharOrder == <<",", "A", "B", "x", "y">>

CharCode(c) == CHOOSE k \in 1..Len(CharOrder) : CharOrder[k] = c

\* String's Ord: byte by byte, a strict prefix first
RECURSIVE LexLess(_, _)
LexLess(s, t) ==
    IF t = <<>> THEN FALSE
    ELSE IF s = <<>> THEN TRUE
    ELSE IF Head(s) # Head(t) THEN CharCode(Head(s)) < CharCode(Head(t))
    ELSE LexLess(Tail(s), Tail(t))

\* a list kept in the order of insertion, without duplicates
SortedInsertUnordered(list, x) ==
    IF \E i \in 1..Len(list) : list[i] = x THEN list ELSE Append(list, x)

\* insertion into a lexically sorted list without duplicates
RECURSIVE SortedInsert(_, _)
SortedInsert(list, x) ==
    IF list = <<>> THEN <<x>>
    ELSE IF Head(list) = x THEN list
    ELSE IF LexLess(x, Head(list)) THEN <<x>> \o list
    ELSE <<Head(list)>> \o SortedInsert(Tail(list), x)

RECURSIVE SortedInsertAll(_, _)
SortedInsertAll(list, xs) ==
    IF xs = <<>> THEN list
    ELSE SortedInsertAll(SortedInsert(list, Head(xs)), Tail(xs))

\* a table's rows, sorted by key; the row of key gets the values added
RECURSIVE RowsAdd(_, _, _)
RowsAdd(rows, key, values) ==
    IF rows = <<>> THEN <<[key |-> key, values |-> SortedInsertAll(<<>>, values)]>>
    ELSE IF Head(rows).key = key
    THEN <<[key |-> key, values |-> SortedInsertAll(Head(rows).values, values)]>>
         \o Tail(rows)
    ELSE IF LexLess(key, Head(rows).key)
    THEN <<[key |-> key, values |-> SortedInsertAll(<<>>, values)]>> \o rows
    ELSE <<Head(rows)>> \o RowsAdd(Tail(rows), key, values)

\* the rows as the table shows them: the key, and the values comma-joined
RenderRows(rows) ==
    [i \in 1..Len(rows) |-> <<rows[i].key, JoinWith(rows[i].values, <<",">>)>>]

\* forward table: section_id -> its traced_ids
RECURSIVE ForwardRows(_, _)
ForwardRows(pairs, rows) ==
    IF pairs = <<>> THEN rows
    ELSE ForwardRows(Tail(pairs), RowsAdd(rows, Head(pairs)[1], Head(pairs)[2]))

ForwardTable(pairs) == RenderRows(ForwardRows(pairs, <<>>))

\* reverse table: every (section_id, traced_id) pair inverted
RECURSIVE InvertInto(_, _, _)
InvertInto(rows, sid, tids) ==
    IF tids = <<>> THEN rows
    ELSE InvertInto(RowsAdd(rows, Head(tids), <<sid>>), sid, Tail(tids))

RECURSIVE ReverseRows(_, _)
ReverseRows(pairs, rows) ==
    IF pairs = <<>> THEN rows
    ELSE ReverseRows(Tail(pairs), InvertInto(rows, Head(pairs)[1], Head(pairs)[2]))

ReverseTable(pairs) == RenderRows(ReverseRows(pairs, <<>>))

\* a section's metadata, by its traceability fields
TraceRecord(sid, tids) ==
    [section_id |-> sid, traced_ids |-> tids,
     generate_section_id_to_traced_ids_table |-> FALSE,
     generate_traced_ids_to_section_ids_table |-> FALSE]

TraceRecordPool ==
    { TraceRecord(Some(<<"A">>), Some(<<(<<"y">>), (<<"x">>)>>)),
      TraceRecord(Some(<<"B">>), Some(<<(<<"x">>)>>)),
      TraceRecord(Some(<<"A", "B">>), Some(<<(<<"x", "y">>), (<<"x">>), (<<"x", "y">>)>>)),
      TraceRecord(Some(<<"A">>), Some(<<(<<"x", "y">>)>>)),
      TraceRecord(Some(<<"B">>), None),
      TraceRecord(None, None) }

InitTrace ==
    /\ IdleNumber /\ IdleBuilder /\ IdleContent /\ IdleDate /\ IdleMetadata
    /\ tRecords \in SeqsUpTo(TraceRecordPool, MaxRecords)
    /\ tTodo = 1..Len(tRecords)
    /\ tPairs = <<>>
    /\ tFwd = <<>>
    /\ tRev = <<>>
    /\ tPhase = "collecting"

\* one section's metadata is taken up, in whatever order the sections come
CollectRecord ==
    /\ tPhase = "collecting"
    /\ \E i \in tTodo :
         /\ tTodo' = tTodo \ {i}
         /\ tPairs' =
              IF has_traceability(tRecords[i]) /\ tRecords[i].section_id.some
              THEN Append(tPairs,
                          <<tRecords[i].section_id.val,
                            IF tRecords[i].traced_ids.some
                            THEN tRecords[i].traced_ids.val ELSE <<>> >>)
              ELSE tPairs
    /\ UNCHANGED <<tRecords, tFwd, tRev, tPhase>>
    /\ UNCHANGED <<nVars, bVars, pVars, dVars, mVars>>

\* both tables are generated from what was collected
GenerateTables ==
    /\ tPhase = "collecting"
    /\ tTodo = {}
    /\ tFwd' = ForwardTable(tPairs)
    /\ tRev' = ReverseTable(tPairs)
    /\ tPhase' = "generated"
    /\ UNCHANGED <<tRecords, tTodo, tPairs>>
    /\ UNCHANGED <<nVars, bVars, pVars, dVars, mVars>>

NextTrace == CollectRecord \/ GenerateTables

SpecTrace == InitTrace /\ [][NextTrace]_vars

-----------------------------------------------------------------------------
(* Claims on the traceability tables *)

\* the lexically ascending list of the members of S
AscendingListOf(S) ==
    CHOOSE list \in [1..Cardinality(S) -> S] :
        \A i, j \in 1..Cardinality(S) : i < j => LexLess(list[i], list[j])

\* the records that name their section
Identified == { i \in 1..Len(tRecords) : tRecords[i].section_id.some }

TracedBy(i) ==
    IF tRecords[i].traced_ids.some
    THEN { tRecords[i].traced_ids.val[k] : k \in 1..Len(tRecords[i].traced_ids.val) }
    ELSE {}

\* C10: whatever the order in which the records are processed, the forward
\* table has one row per distinct section_id, sorted lexically, each with
\* the section's traced_ids deduplicated, sorted lexically and comma-joined,
\* and the reverse table has one row per distinct traced_id cited by a
\* section_id anywhere in the document, sorted lexically, each with the
\* lexically sorted comma-joined section_ids citing it.
C10_TablesIndependentOfOrder ==
    tPhase = "generated" =>
        LET sids == { tRecords[i].section_id.val : i \in Identified }
            tids == UNION { TracedBy(i) : i \in Identified }
            TracedOf(sid) ==
                UNION { TracedBy(i) :
                        i \in { k \in Identified : tRecords[k].section_id.val = sid } }
            CitedBy(tid) ==
                { tRecords[i].section_id.val :
                  i \in { k \in Identified : tid \in TracedBy(k) } }
            fkeys == AscendingListOf(sids)
            rkeys == AscendingListOf(tids)
        IN  /\ tFwd = [r \in 1..Len(fkeys) |->
                        <<fkeys[r],
                          JoinWith(AscendingListOf(TracedOf(fkeys[r])), <<",">>)>>]
            /\ tRev = [r \in 1..Len(rkeys) |->
                        <<rkeys[r],
                          JoinWith(AscendingListOf(CitedBy(rkeys[r])), <<",">>)>>]

\* {A: [y, x]} and {B: [x]}, B's record taken up first: forward is
\* [(A, "x,y"), (B, "x")] and reverse is [(x, "A,B"), (y, "A")]
C10_Witness ==
    /\ tPhase = "generated"
    /\ tRecords = << TraceRecord(Some(<<"A">>), Some(<<(<<"y">>), (<<"x">>)>>)),
                     TraceRecord(Some(<<"B">>), Some(<<(<<"x">>)>>)) >>
    /\ tPairs[1][1] = <<"B">>
    /\ tFwd = << <<(<<"A">>), (<<"x", ",", "y">>)>>, <<(<<"B">>), (<<"x">>)>> >>
    /\ tRev = << <<(<<"x">>), (<<"A", ",", "B">>)>>, <<(<<"y">>), (<<"A">>)>> >>

=============================================================================
